---- MODULE Spec2Model ----
(***************************************************************************)
(* AtomicSeats: the seat reservation engine of src/database_manager.py     *)
(* behind the HTTP handlers of src/app.py.                                 *)
(*                                                                         *)
(* The store is PostgreSQL in its default isolation level, READ COMMITTED: *)
(* a statement sees what was committed when it runs, a row written or      *)
(* selected FOR UPDATE stays locked by its transaction until that          *)
(* transaction ends, a statement that meets a row locked by another        *)
(* transaction waits and then works on the row as committed, and the       *)
(* writes of a transaction become visible together at its commit.  The     *)
(* variables seats, holds and bookings are the committed tables; a         *)
(* transaction in flight is a record of tx: its position, what it has      *)
(* read, and the rows it has locked.                                       *)
(*                                                                         *)
(* No query of the code has an ORDER BY, so the order in which a statement *)
(* meets the rows it locks is unspecified: the next row locked is any of   *)
(* the rows still wanted.  A cycle of waiting transactions is broken by    *)
(* the store, which aborts one of them (DeadlockAbort).                    *)
(*                                                                         *)
(* The reaper is the daemon thread of app.py: active_cleanup is the flag   *)
(* its loop tests and cleanup_thread is where the thread is between two    *)
(* ticks.                                                                  *)
(***************************************************************************)
EXTENDS Integers, Sequences, FiniteSets, TLC

VARIABLES clock, shows, seats, holds, bookings, nextHold, tx, call, opsLeft,
          active_cleanup, cleanup_thread

vars == <<clock, shows, seats, holds, bookings, nextHold, tx, call, opsLeft,
          active_cleanup, cleanup_thread>>

(* ------------------------------ bounds -------------------------------- *)

NumSeats == 2
NumClients == 2
MaxTicks == 2
MaxOps == 3

(* ------------------------- program constants -------------------------- *)

MinHoldSeconds == 60
MaxHoldSeconds == 1800
DefaultHoldSeconds == 60

AVAILABLE == "available"
HELD == "held"
BOOKED == "booked"

DemoShow == "avengers_2026_7pm"

(* hold_id = uuid.uuid4(): ids never issued before, here 1, 2, ... *)
FirstHoldId == 1

(* A nullable column: NULL is the empty set, a value v is {v}. *)
Null == {}
Val(v) == {v}

(* ------------------------------ helpers ------------------------------- *)

Range(s) == {s[i] : i \in 1..Len(s)}

SeatIds == 1..NumSeats
Clients == 1..NumClients
ReaperId == NumClients + 1
Procs == DOMAIN tx

Key(show, sid) == <<show, sid>>
Keys(show, sids) == {Key(show, sid) : sid \in sids}

Seat(st, h, e) == [status |-> st, hold_id |-> h, hold_expires_at |-> e]
Hold(show, sids, e) == [show_id |-> show, seat_ids |-> sids, expires_at |-> e]
Booking(show, sids, at) == [show_id |-> show, seat_ids |-> sids, booked_at |-> at]

IdleTx ==
    [pc |-> "idle", show |-> "", req |-> <<>>, hold |-> 0, now |-> 0,
     expires |-> 0, seatlocks |-> {}, holdlocks |-> {}, todo |-> {},
     delb |-> {}, count |-> 0, counts |-> <<>>]

(* call[p] is the last call of p: what was asked (op, show, req, hold) and, *)
(* once the call has returned, the reply (code is 0 until then).           *)
NoCall ==
    [op |-> "", show |-> "", req |-> <<>>, hold |-> 0,
     code |-> 0, error |-> "", id |-> 0, seat_ids |-> <<>>, at |-> 0,
     unavailable |-> {}, count |-> 0, summary |-> <<>>, detail |-> <<>>]

Request(op, show, req, h) ==
    [NoCall EXCEPT !.op = op, !.show = show, !.req = req, !.hold = h]

Reply(code, err) == [NoCall EXCEPT !.code = code, !.error = err]

Answer(c, r) == [r EXCEPT !.op = c.op, !.show = c.show, !.req = c.req, !.hold = c.hold]

Ready(p) == tx[p].pc = "idle"

(* The call of p returns r; its transaction has ended and its locks are gone. *)
Finish(p, r) ==
    /\ tx' = [tx EXCEPT ![p] = IdleTx]
    /\ call' = [call EXCEPT ![p] = Answer(call[p], r)]

(* The call c of p returns r before any statement has locked a row. *)
Return(p, c, r) ==
    /\ tx' = tx
    /\ call' = [call EXCEPT ![p] = Answer(c, r)]

(* The call op of p returns in this step. *)
Returns(p, op) == call[p].op = op /\ call[p].code = 0 /\ call'[p].code # 0

(* Row locks: a row is free for p when no other transaction holds it. *)
SeatFree(p, k) == \A q \in Procs \ {p} : k \notin tx[q].seatlocks
HoldFree(p, h) == \A q \in Procs \ {p} : h \notin tx[q].holdlocks

(* A statement that still wants the rows w can finish in one more step: it *)
(* wants at most one row, and no other transaction holds it.  What follows *)
(* the statement up to the commit touches only rows the transaction has    *)
(* locked or inserts, so it is part of that step.                          *)
LastRow(w) == Cardinality(w) <= 1
CanFinish(p, w) == LastRow(w) /\ \A k \in w : SeatFree(p, k)

(* ------------------------------ clock --------------------------------- *)

(* datetime.now(timezone.utc); time is observed in steps of the shortest   *)
(* hold, so that now = expires_at is among the instants observed.          *)
Tick ==
    /\ clock + MinHoldSeconds <= MaxTicks * MinHoldSeconds
    /\ clock' = clock + MinHoldSeconds
    /\ UNCHANGED <<shows, seats, holds, bookings, nextHold, tx, call, opsLeft, active_cleanup,
                 cleanup_thread>>

(* ---------------------------- hold_seats ------------------------------ *)

Max(a, b) == IF a >= b THEN a ELSE b
Min(a, b) == IF a <= b THEN a ELSE b

(* duration_raw = data.get('hold_duration_seconds', 60), for a body that   *)
(* has no such key (Null) or has an integer d there (Val(d)); then          *)
(* duration_int = int(duration_raw)                                         *)
DurationInt(raw) == IF raw = Null THEN DefaultHoldSeconds ELSE CHOOSE d \in raw : TRUE

(* A clamp that has no floor. *)
ClampDuration_NoFloor(d) == Min(d, MaxHoldSeconds)

(* app.py: duration = max(60, min(duration_int, 1800)) *)
ClampDuration(d) == Max(MinHoldSeconds, Min(d, MaxHoldSeconds))

(* A handler that passes on whatever list it is sent. *)
ValidSeatIds_Any(req) == TRUE

(* app.py validate_seat_ids: a non-empty list without duplicates. *)
ValidSeatIds(req) == Len(req) > 0 /\ Cardinality(Range(req)) = Len(req)

(* count() of the show's seat rows whose seat_id is in the request *)
ValidSeatCount(show, req) ==
    Cardinality({sid \in Range(req) : Key(show, sid) \in DOMAIN seats})

(* A handler that answers every failure with 409. *)
HoldFailureCode_Conflict(err) == 409

(* app.py: 409 if "unavailable" in result["error"] else 400 *)
HoldFailureCode(err) == IF err = "seats unavailable" THEN 409 ELSE 400

(* The statements of hold_seats before its SELECT ... FOR UPDATE. *)
HoldValidation(show, req) ==
    IF show \notin shows THEN "show not found"
    ELSE IF ValidSeatCount(show, req) # Len(req) THEN "invalid seat ID(s)"
    ELSE IF Len(req) # Cardinality(Range(req)) THEN "duplicate seats in request"
    ELSE "ok"

HoldBegin(p, show, req, d) ==
    /\ Ready(p)
    /\ opsLeft > 0
    /\ opsLeft' = opsLeft - 1
    /\ LET c == Request("hold", show, req, 0)
           v == HoldValidation(show, req)
       IN IF ~ValidSeatIds(req)
          THEN Return(p, c, Reply(400, "seat_ids invalid"))
          ELSE IF v # "ok"
          THEN Return(p, c, Reply(HoldFailureCode(v), v))
          ELSE /\ tx' = [tx EXCEPT ![p] =
                      [IdleTx EXCEPT !.pc = "hold_lock", !.show = show, !.req = req,
                                     !.expires = clock + ClampDuration(d)]]
               /\ call' = [call EXCEPT ![p] = c]
    /\ UNCHANGED <<clock, shows, seats, holds, bookings, nextHold, active_cleanup,
                 cleanup_thread>>

(* A SELECT ... FOR UPDATE that takes every seat row there is. *)
RequestedRows_AllRows(p) == DOMAIN seats \ tx[p].seatlocks

(* The rows of the SELECT ... FOR UPDATE that are not locked yet. *)
RequestedRows(p) == Keys(tx[p].show, Range(tx[p].req)) \ tx[p].seatlocks

(* SELECT ... FOR UPDATE meets one more row of the request. *)
HoldLock(p, k) ==
    /\ tx[p].pc = "hold_lock"
    /\ k \in RequestedRows(p)
    /\ ~LastRow(RequestedRows(p))
    /\ SeatFree(p, k)
    /\ tx' = [tx EXCEPT ![p].seatlocks = @ \cup {k}]
    /\ UNCHANGED <<clock, shows, seats, holds, bookings, nextHold, call, opsLeft, active_cleanup,
                 cleanup_thread>>

(* A check that takes a BOOKED seat for a free one. *)
UnavailableSeats_HeldOnly(show, sids) ==
    {sid \in sids : seats[Key(show, sid)].status = HELD}

(* A check that takes a HELD seat for a free one. *)
UnavailableSeats_BookedOnly(show, sids) ==
    {sid \in sids : seats[Key(show, sid)].status = BOOKED}

(* [seat.seat_id for seat in locked_seats if seat.status != AVAILABLE] *)
UnavailableSeats(show, sids) ==
    {sid \in sids : seats[Key(show, sid)].status # AVAILABLE}

(* A loop that sets the status and forgets the owner. *)
SeatsHeld_StatusOnly(ks, h, e) ==
    [k \in DOMAIN seats |->
        IF k \in ks THEN Seat(HELD, seats[k].hold_id, Val(e)) ELSE seats[k]]

(* for seat in locked_seats: status, hold_id, hold_expires_at *)
SeatsHeld(ks, h, e) ==
    [k \in DOMAIN seats |-> IF k \in ks THEN Seat(HELD, Val(h), Val(e)) ELSE seats[k]]

HoldCommit(p) ==
    /\ tx[p].pc = "hold_lock"
    /\ CanFinish(p, RequestedRows(p))
    /\ LET t == tx[p]
           un == UnavailableSeats(t.show, Range(t.req))
       IN IF un # {}
          THEN /\ Finish(p, [Reply(409, "seats unavailable") EXCEPT !.unavailable = un])
               /\ UNCHANGED <<seats, holds, nextHold>>
          ELSE /\ holds' = (nextHold :> Hold(t.show, t.req, t.expires)) @@ holds
               /\ seats' = SeatsHeld(Keys(t.show, Range(t.req)), nextHold, t.expires)
               /\ nextHold' = nextHold + 1
               /\ Finish(p, [NoCall EXCEPT !.code = 201, !.id = nextHold,
                                           !.seat_ids = t.req, !.at = t.expires])
    /\ UNCHANGED <<clock, shows, bookings, opsLeft, active_cleanup,
                 cleanup_thread>>

(* ----------------------------- book_hold ------------------------------ *)

(* A query for the hold without the filter on show_id. *)
HoldVisible_AnyShow(show, h) == h \in DOMAIN holds

(* Hold.hold_id == hold_id, Hold.show_id == show_id *)
HoldVisible(show, h) == h \in DOMAIN holds /\ holds[h].show_id = show

BookBegin(p, show, h) ==
    /\ Ready(p)
    /\ opsLeft > 0
    /\ opsLeft' = opsLeft - 1
    /\ tx' = [tx EXCEPT ![p] =
                [IdleTx EXCEPT !.pc = "book_hold", !.show = show, !.hold = h,
                               !.now = clock]]
    /\ call' = [call EXCEPT ![p] = Request("book", show, <<>>, h)]
    /\ UNCHANGED <<clock, shows, seats, holds, bookings, nextHold, active_cleanup,
                 cleanup_thread>>

(* The replay path: no hold row, look for the booking made from it. *)
ExistingBooking(show, h) == h \in DOMAIN bookings /\ bookings[h].show_id = show

(* A replay that does not look for the booking. *)
ReplayReply_NoLookup(show, h) == Reply(400, "hold not found or expired")

ReplayReply(show, h) ==
    IF ExistingBooking(show, h)
    THEN [NoCall EXCEPT !.code = 200, !.id = h, !.seat_ids = bookings[h].seat_ids,
                        !.at = bookings[h].booked_at]
    ELSE Reply(400, "hold not found or expired")

(* hold.expires_at <= now *)
HoldExpired(e, now) == e <= now

(* SELECT hold ... FOR UPDATE .first(), and what follows when no row comes back *)
BookLockHold(p) ==
    /\ tx[p].pc = "book_hold"
    /\ LET t == tx[p] IN
       IF ~HoldVisible(t.show, t.hold)
       THEN Finish(p, ReplayReply(t.show, t.hold))
       ELSE /\ HoldFree(p, t.hold)
            /\ tx' = [tx EXCEPT ![p] =
                        [t EXCEPT !.holdlocks = {t.hold},
                                  !.req = holds[t.hold].seat_ids,
                                  !.expires = holds[t.hold].expires_at,
                                  !.pc = IF HoldExpired(holds[t.hold].expires_at, t.now)
                                         THEN "book_cleanup" ELSE "book_seats"]]
            /\ UNCHANGED call
    /\ UNCHANGED <<clock, shows, seats, holds, bookings, nextHold, opsLeft, active_cleanup,
                 cleanup_thread>>

BookLockSeat(p, k) ==
    /\ tx[p].pc = "book_seats"
    /\ k \in RequestedRows(p)
    /\ ~LastRow(RequestedRows(p))
    /\ SeatFree(p, k)
    /\ tx' = [tx EXCEPT ![p].seatlocks = @ \cup {k}]
    /\ UNCHANGED <<clock, shows, seats, holds, bookings, nextHold, call, opsLeft, active_cleanup,
                 cleanup_thread>>

(* A book_hold that does not verify its seats. *)
SeatMismatch_Never(ks, h) == FALSE

(* seat.status != HELD or seat.hold_id != hold.hold_id, for some locked seat *)
SeatMismatch(ks, h) ==
    \E k \in ks : seats[k].status # HELD \/ seats[k].hold_id # Val(h)

(* A booking that gets an id of its own, as the column default would give. *)
BookingId_Fresh(h) == h + NumClients + MaxOps

(* booking_id = hold.hold_id *)
BookingId(h) == h

(* "booked_at" of the reply of the call that books: now.isoformat() *)
BookedAtReply(now, stored) == now

(* A loop that sets the status and leaves the hold fields as they are. *)
SeatsBooked_KeepsHold(ks) ==
    [k \in DOMAIN seats |->
        IF k \in ks THEN [seats[k] EXCEPT !.status = BOOKED] ELSE seats[k]]

(* for seat in locked_seats: status = BOOKED, hold_id = None, ... *)
SeatsBooked(ks) ==
    [k \in DOMAIN seats |-> IF k \in ks THEN Seat(BOOKED, Null, Null) ELSE seats[k]]

(* A DELETE without its WHERE clause. *)
HoldsDeleted_All(hs) == [h \in {} |-> holds[h]]

(* A session.delete(hold) that never reaches the store. *)
HoldsDeleted_Never(hs) == holds

(* session.delete(hold), and DELETE FROM holds *)
HoldsDeleted(hs) == [h \in DOMAIN holds \ hs |-> holds[h]]

BookCommit(p) ==
    /\ tx[p].pc = "book_seats"
    /\ CanFinish(p, RequestedRows(p))
    /\ LET t == tx[p]
           ks == Keys(t.show, Range(t.req))
           b == BookingId(t.hold)
       IN IF SeatMismatch(ks, t.hold)
          THEN /\ Finish(p, Reply(400, "hold invalidated (seat state mismatch)"))
               /\ UNCHANGED <<seats, holds, bookings>>
          ELSE IF b \in DOMAIN bookings
          THEN /\ Finish(p, Reply(400, "internal error"))
               /\ UNCHANGED <<seats, holds, bookings>>
          ELSE /\ bookings' = (b :> Booking(t.show, t.req, clock)) @@ bookings
               /\ seats' = SeatsBooked(ks)
               /\ holds' = HoldsDeleted({t.hold})
               /\ Finish(p, [NoCall EXCEPT !.code = 200, !.id = b, !.seat_ids = t.req,
                                           !.at = BookedAtReply(t.now, clock)])
    /\ UNCHANGED <<clock, shows, nextHold, opsLeft, active_cleanup,
                 cleanup_thread>>

(* ---------------------------- _cleanup_hold --------------------------- *)

(* An UPDATE guarded by the status in place of the hold_id. *)
CleanupRows_AnyHeld(show, sids, h) ==
    {k \in Keys(show, sids) \cap DOMAIN seats : seats[k].status = HELD}

(* An UPDATE without the guard on hold_id. *)
CleanupRows_NoGuard(show, sids, h) == Keys(show, sids) \cap DOMAIN seats

(* The rows of UPDATE seats ... WHERE show_id = hold.show_id AND seat_id IN  *)
(* hold.seat_ids AND hold_id = hold.hold_id                                 *)
CleanupRows(show, sids, h) ==
    {k \in Keys(show, sids) \cap DOMAIN seats : seats[k].hold_id = Val(h)}

CleanupWanted(p) ==
    CleanupRows(tx[p].show, Range(tx[p].req), tx[p].hold) \ tx[p].seatlocks

(* The UPDATE meets one more of its rows and locks it.  In book_hold the    *)
(* commit follows the UPDATE at once; in release_hold and in the reaper a   *)
(* DELETE of the hold row, which may have to wait, comes first.             *)
CleanupLock(p, k) ==
    /\ \/ tx[p].pc = "book_cleanup" /\ ~LastRow(CleanupWanted(p))
       \/ tx[p].pc \in {"release_update", "reap_update"}
    /\ k \in CleanupWanted(p)
    /\ SeatFree(p, k)
    /\ tx' = [tx EXCEPT ![p].seatlocks = @ \cup {k}]
    /\ UNCHANGED <<clock, shows, seats, holds, bookings, nextHold, call, opsLeft, active_cleanup,
                 cleanup_thread>>

(* An UPDATE that frees the seat and leaves the hold fields as they are. *)
SeatsReleased_StatusOnly(ks) ==
    [k \in DOMAIN seats |->
        IF k \in ks THEN [seats[k] EXCEPT !.status = AVAILABLE] ELSE seats[k]]

(* Seat.status: AVAILABLE, Seat.hold_id: None, Seat.hold_expires_at: None *)
SeatsReleased(ks) ==
    [k \in DOMAIN seats |-> IF k \in ks THEN Seat(AVAILABLE, Null, Null) ELSE seats[k]]

BookExpiredCommit(p) ==
    /\ tx[p].pc = "book_cleanup"
    /\ CanFinish(p, CleanupWanted(p))
    /\ seats' = SeatsReleased(tx[p].seatlocks \cup CleanupWanted(p))
    /\ holds' = HoldsDeleted({tx[p].hold})
    /\ Finish(p, Reply(400, "hold expired"))
    /\ UNCHANGED <<clock, shows, bookings, nextHold, opsLeft, active_cleanup,
                 cleanup_thread>>

(* ---------------------------- release_hold ---------------------------- *)

ReleaseBegin(p, show, h) ==
    /\ Ready(p)
    /\ opsLeft > 0
    /\ opsLeft' = opsLeft - 1
    /\ IF ~HoldVisible(show, h)
       THEN Return(p, Request("release", show, <<>>, h), Reply(404, "hold not found"))
       ELSE /\ tx' = [tx EXCEPT ![p] =
                        [IdleTx EXCEPT !.pc = "release_update",
                                       !.show = holds[h].show_id, !.hold = h,
                                       !.req = holds[h].seat_ids]]
            /\ call' = [call EXCEPT ![p] = Request("release", show, <<>>, h)]
    /\ UNCHANGED <<clock, shows, seats, holds, bookings, nextHold, active_cleanup,
                 cleanup_thread>>

(* session.delete(hold) is flushed at the commit: DELETE, then COMMIT. *)
ReleaseCommit(p) ==
    /\ tx[p].pc = "release_update"
    /\ CleanupWanted(p) = {}
    /\ HoldFree(p, tx[p].hold)
    /\ seats' = SeatsReleased(tx[p].seatlocks)
    /\ holds' = HoldsDeleted({tx[p].hold})
    /\ Finish(p, Reply(200, "hold released"))
    /\ UNCHANGED <<clock, shows, bookings, nextHold, opsLeft, active_cleanup,
                 cleanup_thread>>

(* ------------------------ cleanup_expired_holds ----------------------- *)

(* A query without the filter on expires_at. *)
ExpiredHolds_All(now) == DOMAIN holds

(* A query that misses the hold that expires at this very instant. *)
ExpiredHolds_Strict(now) == {h \in DOMAIN holds : holds[h].expires_at < now}

(* session.query(Hold).filter(Hold.expires_at <= now).all() *)
ExpiredHolds(now) == {h \in DOMAIN holds : holds[h].expires_at <= now}

HoldRef(h) == [id |-> h, show_id |-> holds[h].show_id, seat_ids |-> holds[h].seat_ids]

ReapReply(n) == [NoCall EXCEPT !.code = 200, !.count = n]

ReapBegin(p) ==
    /\ Ready(p)
    /\ LET found == {HoldRef(h) : h \in ExpiredHolds(clock)} IN
       IF found = {}
       THEN Return(p, Request("reap", "", <<>>, 0), ReapReply(0))
       ELSE \E first \in found :
              /\ tx' = [tx EXCEPT ![p] =
                          [IdleTx EXCEPT !.pc = "reap_update", !.now = clock,
                                         !.show = first.show_id, !.hold = first.id,
                                         !.req = first.seat_ids,
                                         !.todo = found \ {first},
                                         !.count = Cardinality(found)]]
              /\ call' = [call EXCEPT ![p] = Request("reap", "", <<>>, 0)]
    /\ UNCHANGED <<clock, shows, seats, holds, bookings, nextHold, opsLeft, active_cleanup,
                 cleanup_thread>>

(* The DELETE of the hold just cleaned up: flushed before the next hold's   *)
(* UPDATE, or at the commit after the last one.                             *)
ReapDelete(p) ==
    /\ tx[p].pc = "reap_update"
    /\ CleanupWanted(p) = {}
    /\ HoldFree(p, tx[p].hold)
    /\ LET t == tx[p]
           gone == t.holdlocks \cup {t.hold}
       IN IF t.todo = {}
          THEN /\ seats' = SeatsReleased(t.seatlocks)
               /\ holds' = HoldsDeleted(gone)
               /\ Finish(p, ReapReply(t.count))
          ELSE /\ \E nxt \in t.todo :
                     tx' = [tx EXCEPT ![p] =
                              [t EXCEPT !.holdlocks = gone \cap DOMAIN holds,
                                        !.show = nxt.show_id, !.hold = nxt.id,
                                        !.req = nxt.seat_ids, !.todo = @ \ {nxt}]]
               /\ UNCHANGED <<seats, holds, call>>
    /\ UNCHANGED <<clock, shows, bookings, nextHold, opsLeft, active_cleanup,
                 cleanup_thread>>

(* --------------------------- reset_all_seats -------------------------- *)

ResetPcs == {"reset_holds", "reset_seats"}

(* One administrator: no second reset starts while one is in flight. *)
ResetBegin(p) ==
    /\ Ready(p)
    /\ \A q \in Procs : tx[q].pc \notin ResetPcs
    /\ opsLeft > 0
    /\ opsLeft' = opsLeft - 1
    /\ tx' = [tx EXCEPT ![p] =
                [IdleTx EXCEPT !.pc = "reset_holds", !.todo = DOMAIN holds]]
    /\ call' = [call EXCEPT ![p] = Request("reset", "", <<>>, 0)]
    /\ UNCHANGED <<clock, shows, seats, holds, bookings, nextHold, active_cleanup,
                 cleanup_thread>>

ResetHoldsWanted(p) == (tx[p].todo \cap DOMAIN holds) \ tx[p].holdlocks

(* DELETE FROM holds meets one more row *)
ResetLockHold(p, h) ==
    /\ tx[p].pc = "reset_holds"
    /\ h \in ResetHoldsWanted(p)
    /\ HoldFree(p, h)
    /\ tx' = [tx EXCEPT ![p].holdlocks = @ \cup {h}]
    /\ UNCHANGED <<clock, shows, seats, holds, bookings, nextHold, call, opsLeft, active_cleanup,
                 cleanup_thread>>

(* DELETE FROM bookings *)
ResetBookings(p) ==
    /\ tx[p].pc = "reset_holds"
    /\ ResetHoldsWanted(p) = {}
    /\ tx' = [tx EXCEPT ![p].pc = "reset_seats", ![p].delb = DOMAIN bookings,
                        ![p].holdlocks = @ \cap DOMAIN holds, ![p].todo = {}]
    /\ UNCHANGED <<clock, shows, seats, holds, bookings, nextHold, call, opsLeft, active_cleanup,
                 cleanup_thread>>

ResetRows(p) == DOMAIN seats \ tx[p].seatlocks

(* UPDATE seats SET status = AVAILABLE, ... meets one more row *)
ResetLockSeat(p, k) ==
    /\ tx[p].pc = "reset_seats"
    /\ k \in ResetRows(p)
    /\ ~LastRow(ResetRows(p))
    /\ SeatFree(p, k)
    /\ tx' = [tx EXCEPT ![p].seatlocks = @ \cup {k}]
    /\ UNCHANGED <<clock, shows, seats, holds, bookings, nextHold, call, opsLeft, active_cleanup,
                 cleanup_thread>>

ResetCommit(p) ==
    /\ tx[p].pc = "reset_seats"
    /\ CanFinish(p, ResetRows(p))
    /\ holds' = HoldsDeleted(tx[p].holdlocks)
    /\ bookings' = [b \in DOMAIN bookings \ tx[p].delb |-> bookings[b]]
    /\ seats' = SeatsReleased(DOMAIN seats)
    /\ Finish(p, [NoCall EXCEPT !.code = 200, !.count = Cardinality(DOMAIN seats)])
    /\ UNCHANGED <<clock, shows, nextHold, opsLeft, active_cleanup,
                 cleanup_thread>>

(* --------------------------- initialize_show -------------------------- *)

(* A seat map keyed by seat_id alone: a seat id that the demo show has     *)
(* already gets no row of its own.                                         *)
NewSeats_NoShared(show, sids) ==
    [k \in Keys(show, sids \ SeatIds) |-> Seat(AVAILABLE, Null, Null)]

(* Seat(seat_id=sid, show_id=show_id, status=AVAILABLE) for sid in seat_ids *)
NewSeats(show, sids) == [k \in Keys(show, sids) |-> Seat(AVAILABLE, Null, Null)]

(* The handler's validation and the SELECT that looks for the show. *)
InitializeBegin(p, show, req) ==
    /\ Ready(p)
    /\ opsLeft > 0
    /\ opsLeft' = opsLeft - 1
    /\ LET c == Request("init", show, req, 0) IN
       IF ~ValidSeatIds(req)
       THEN Return(p, c, Reply(400, "seat_ids invalid"))
       ELSE IF show \in shows
       THEN Return(p, c, Reply(409, "show already exists"))
       ELSE /\ tx' = [tx EXCEPT ![p] =
                        [IdleTx EXCEPT !.pc = "init_insert", !.show = show, !.req = req]]
            /\ call' = [call EXCEPT ![p] = c]
    /\ UNCHANGED <<clock, shows, seats, holds, bookings, nextHold, active_cleanup,
                 cleanup_thread>>

(* A rollback that leaves the rows that were flushed before the failure. *)
RolledBack_Partial(before, pending) == pending @@ before

(* A rollback that keeps what the transaction has written. *)
RolledBack_Flushed(before, pending) == pending

(* get_session: except Exception: session.rollback(); raise.  The rows of   *)
(* the table are those from before the transaction, whatever was pending.   *)
RolledBack(before, pending) == before

(* A shows table without its primary key. *)
ShowKeyTaken_Never(show) == FALSE

(* show_id = Column(String, primary_key=True): the INSERT of a show whose   *)
(* id is already in the table raises IntegrityError.                        *)
ShowKeyTaken(show) == show \in shows

(* INSERT of the show and of its seats, flushed at the commit.  The primary *)
(* key of shows refuses a show that was committed since the SELECT.         *)
InitializeCommit(p) ==
    /\ tx[p].pc = "init_insert"
    /\ IF ShowKeyTaken(tx[p].show)
       THEN /\ Finish(p, Reply(409, "database integrity error"))
            /\ seats' = RolledBack(seats, NewSeats(tx[p].show, Range(tx[p].req)))
            /\ shows' = shows
       ELSE /\ shows' = shows \cup {tx[p].show}
            /\ seats' = NewSeats(tx[p].show, Range(tx[p].req)) @@ seats
            /\ Finish(p, [NoCall EXCEPT !.code = 201, !.seat_ids = tx[p].req,
                                        !.count = Len(tx[p].req)])
    /\ UNCHANGED <<clock, holds, bookings, nextHold, opsLeft, active_cleanup,
                 cleanup_thread>>

(* --------------------------- get_seat_status -------------------------- *)

SeatRows(show) == {k \in DOMAIN seats : k[1] = show}

(* SELECT status, count(seat_id) ... GROUP BY status, into count_dict *)
StatusCount(show, st) == Cardinality({k \in SeatRows(show) : seats[k].status = st})

(* The summary of get_seat_status: total_seats is the sum of the three counts. *)
SeatStatusSummary(show) ==
    [total_seats |-> StatusCount(show, AVAILABLE) + StatusCount(show, HELD)
                     + StatusCount(show, BOOKED),
     available_seats |-> StatusCount(show, AVAILABLE),
     held_seats |-> StatusCount(show, HELD),
     booked_seats |-> StatusCount(show, BOOKED)]


(* The SELECT of the show and the SELECT status, count(seat_id) ... GROUP   *)
(* BY status: the counts are those of the rows committed at that statement. *)
StatusBegin(p, show) ==
    /\ Ready(p)
    /\ opsLeft > 0
    /\ opsLeft' = opsLeft - 1
    /\ LET c == Request("status", show, <<>>, 0) IN
       IF show \notin shows
       THEN Return(p, c, Reply(404, "show not found"))
       ELSE /\ tx' = [tx EXCEPT ![p] =
                        [IdleTx EXCEPT !.pc = "status_detail", !.show = show,
                                       !.counts = SeatStatusSummary(show)]]
            /\ call' = [call EXCEPT ![p] = c]
    /\ UNCHANGED <<clock, shows, seats, holds, bookings, nextHold, active_cleanup,
                   cleanup_thread>>

(* One entry of seats_detail: the status, and hold_expires_at for a HELD    *)
(* seat that has one.                                                       *)
SeatDetail(k) ==
    [status |-> seats[k].status,
     hold_expires_at |-> IF seats[k].status = HELD THEN seats[k].hold_expires_at
                         ELSE Null]

(* The SELECT of the seats of the show, a statement of its own, and the     *)
(* reply made of the counts read before and of these rows.                  *)
StatusDetails(p) ==
    /\ tx[p].pc = "status_detail"
    /\ Finish(p, [NoCall EXCEPT !.code = 200, !.summary = tx[p].counts,
                                !.detail = [k \in SeatRows(tx[p].show) |-> SeatDetail(k)]])
    /\ UNCHANGED <<clock, shows, seats, holds, bookings, nextHold, opsLeft,
                   active_cleanup, cleanup_thread>>

(* ------------------------- deadlock detection ------------------------- *)

WantSeats(p) ==
    IF tx[p].pc \in {"hold_lock", "book_seats"} THEN RequestedRows(p)
    ELSE IF tx[p].pc \in {"book_cleanup", "release_update", "reap_update"}
         THEN CleanupWanted(p)
    ELSE IF tx[p].pc = "reset_seats" THEN ResetRows(p)
    ELSE {}

WantHolds(p) ==
    IF tx[p].pc = "book_hold" THEN {tx[p].hold} \cap DOMAIN holds
    ELSE IF tx[p].pc \in {"release_update", "reap_update"} /\ CleanupWanted(p) = {}
         THEN {tx[p].hold}
    ELSE IF tx[p].pc = "reset_holds" THEN ResetHoldsWanted(p)
    ELSE {}

WaitsFor(p, q) ==
    /\ p # q
    /\ \/ WantSeats(p) \cap tx[q].seatlocks # {}
       \/ WantHolds(p) \cap tx[q].holdlocks # {}

RECURSIVE WaitClosure(_, _)
WaitClosure(S, n) ==
    IF n = 0 THEN S
    ELSE WaitClosure(S \cup {q \in Procs : \E r \in S : WaitsFor(r, q)}, n - 1)

InWaitCycle(p) ==
    p \in WaitClosure({q \in Procs : WaitsFor(p, q)}, Cardinality(Procs))

(* What each caller makes of the exception the aborted statement raises. *)
AbortReply(pc) ==
    CASE pc = "hold_lock" -> Reply(400, "internal error")
      [] pc \in {"book_hold", "book_seats", "book_cleanup"} -> Reply(400, "internal error")
      [] pc = "release_update" -> Reply(404, "hold not found")
      [] pc = "reap_update" -> ReapReply(0)
      [] OTHER -> Reply(500, "reset failed")

(* The seats table as the transaction of p has written it so far: the      *)
(* UPDATE of _cleanup_hold and of reset_all_seats has changed the rows it   *)
(* has met; the SELECT ... FOR UPDATE of hold_seats and book_hold changes   *)
(* nothing.                                                                 *)
PendingSeats(p) ==
    IF tx[p].pc \in {"book_cleanup", "release_update", "reap_update", "reset_seats"}
    THEN SeatsReleased(tx[p].seatlocks)
    ELSE seats

(* The store finds p in a cycle of waiting transactions and aborts it: the  *)
(* statement raises, get_session rolls back, the method's except returns.   *)
DeadlockAbort(p) ==
    /\ InWaitCycle(p)
    /\ Finish(p, AbortReply(tx[p].pc))
    /\ seats' = RolledBack(seats, PendingSeats(p))
    /\ UNCHANGED <<clock, shows, holds, bookings, nextHold, opsLeft, active_cleanup,
                 cleanup_thread>>

(* ------------------------------- spec --------------------------------- *)

(* The service after start-up: the demo show with its seats, all free; the *)
(* processes P have made no call yet, and n calls will be made.            *)
Started(P, n) ==
    /\ clock = 0
    /\ shows = {DemoShow}
    /\ seats = [k \in Keys(DemoShow, SeatIds) |-> Seat(AVAILABLE, Null, Null)]
    /\ holds = <<>>
    /\ bookings = <<>>
    /\ nextHold = FirstHoldId
    /\ tx = [p \in P |-> IdleTx]
    /\ call = [p \in P |-> NoCall]
    /\ opsLeft = n
    /\ active_cleanup = TRUE
    /\ cleanup_thread = "running"

Init == Started(Clients \cup {ReaperId}, MaxOps)

RECURSIVE Ascending(_)
Ascending(S) ==
    IF S = {} THEN <<>>
    ELSE LET m == CHOOSE x \in S : \A y \in S : x <= y
         IN <<m>> \o Ascending(S \ {m})

(* What the clients send: each non-empty set of seats of the show, no      *)
(* duration (the default) or one below the minimum, and a hold id the       *)
(* service has issued or one it never issued.                               *)
Requests == {Ascending(S) : S \in SUBSET SeatIds \ {{}}}
Durations == {0, DefaultHoldSeconds}
IssuedOrUnknown == (FirstHoldId - 1)..(nextHold - 1)

Next ==
    \/ Tick
    \/ \E p \in Clients, req \in Requests, d \in Durations :
           HoldBegin(p, DemoShow, req, d)
    \/ \E p \in Clients, k \in DOMAIN seats : HoldLock(p, k)
    \/ \E p \in Clients : HoldCommit(p)
    \/ \E p \in Clients, h \in IssuedOrUnknown : BookBegin(p, DemoShow, h)
    \/ \E p \in Clients : BookLockHold(p)
    \/ \E p \in Clients, k \in DOMAIN seats : BookLockSeat(p, k)
    \/ \E p \in Clients : BookCommit(p)
    \/ \E p \in Clients : BookExpiredCommit(p)
    \/ \E p \in Procs, k \in DOMAIN seats : CleanupLock(p, k)
    \/ \E p \in Clients, h \in IssuedOrUnknown : ReleaseBegin(p, DemoShow, h)
    \/ \E p \in Clients : ReleaseCommit(p)
    \/ ReapBegin(ReaperId)
    \/ ReapDelete(ReaperId)
    \/ \E p \in Clients : ResetBegin(p)
    \/ \E p \in Clients, h \in DOMAIN holds : ResetLockHold(p, h)
    \/ \E p \in Clients : ResetBookings(p)
    \/ \E p \in Clients, k \in DOMAIN seats : ResetLockSeat(p, k)
    \/ \E p \in Clients : ResetCommit(p)
    \/ \E p \in Procs : DeadlockAbort(p)

Spec == Init /\ [][Next]_vars

(* ---------- concurrent hold_seats calls on a show that is free -------- *)

RaceCalls == 3
Racers == 1..RaceCalls

InitRace == Started(Racers, RaceCalls)

(* Each caller makes one call; the calls overlap in every possible way.    *)
(* The callers are alike and a call does nothing to the store before its   *)
(* first lock, so the calls are numbered in the order they come in.        *)
NextRace ==
    \/ \E p \in Racers, req \in Requests, d \in Durations :
           /\ call[p].op = ""
           /\ \A q \in Racers : q < p => call[q].op # ""
           /\ HoldBegin(p, DemoShow, req, d)
    \/ \E p \in Racers, k \in DOMAIN seats : HoldLock(p, k)
    \/ \E p \in Racers : HoldCommit(p)
    \/ \E p \in Racers : DeadlockAbort(p)

SpecRace == InitRace /\ [][NextRace]_vars

HoldCallers == {p \in Procs : call[p].op = "hold"}
Requesters(sid) == {p \in HoldCallers : sid \in Range(call[p].req)}
AllReturned == HoldCallers # {} /\ \A p \in HoldCallers : call[p].code # 0
HeldBy(sid, p) ==
    seats[Key(DemoShow, sid)] = Seat(HELD, Val(call[p].id), Val(call[p].at))

(* C3: when two or more hold_seats calls for the same single AVAILABLE seat *)
(* have run concurrently, exactly one has returned 201 and every other one  *)
(* 409 "seats unavailable"; the seat is HELD by the winner's hold and no    *)
(* seat is BOOKED.                                                          *)
C3_LastSeatRace ==
    \A sid \in SeatIds :
        (/\ Cardinality(HoldCallers) >= 2
         /\ \A p \in HoldCallers : call[p].req = <<sid>> /\ call[p].code # 0)
        => /\ \E w \in HoldCallers :
                 /\ call[w].code = 201
                 /\ HeldBy(sid, w)
                 /\ \A p \in HoldCallers \ {w} :
                        call[p].code = 409 /\ call[p].error = "seats unavailable"
           /\ \A k \in DOMAIN seats : seats[k].status # BOOKED

C3_Witness ==
    /\ HoldCallers = Racers
    /\ \A p \in Racers : call[p].req = <<1>> /\ call[p].code # 0
    /\ \E w \in Racers : call[w].code = 201 /\ HeldBy(1, w)

(* C4 as claimed: after N concurrent hold_seats calls on overlapping seat   *)
(* sets that were all AVAILABLE, every seat requested by two or more of the *)
(* calls is HELD by exactly one of them.                                    *)
C4_OnePerContendedSeat ==
    (/\ AllReturned
     /\ \A p, q \in HoldCallers : Range(call[p].req) \cap Range(call[q].req) # {})
    => \A sid \in SeatIds :
          Cardinality(Requesters(sid)) >= 2
          => \E w \in Requesters(sid) :
                /\ call[w].code = 201
                /\ HeldBy(sid, w)
                /\ \A p \in Requesters(sid) \ {w} : call[p].code # 201

(* C4 as amended: after N concurrent hold_seats calls on seats that were    *)
(* all AVAILABLE, a seat requested by two or more of the calls is HELD by   *)
(* the one requester that succeeded, and by no other; when every call that  *)
(* requested it failed, it is AVAILABLE.                                    *)
C4_AtMostOnePerContendedSeat ==
    AllReturned
    => \A sid \in SeatIds :
          Cardinality(Requesters(sid)) >= 2
          => LET winners == {p \in Requesters(sid) : call[p].code = 201} IN
             /\ Cardinality(winners) <= 1
             /\ \A w \in winners : HeldBy(sid, w)
             /\ winners = {} => seats[Key(DemoShow, sid)] = Seat(AVAILABLE, Null, Null)

(* Three calls: one takes seat 1, the two that ask for seats 1 and 2 fail. *)
C4_Witness ==
    /\ AllReturned
    /\ Cardinality(Requesters(1)) = 3 /\ Cardinality(Requesters(2)) = 2
    /\ \E w \in Requesters(1) : call[w].code = 201 /\ HeldBy(1, w)
    /\ \A p \in Requesters(2) : call[p].code = 409
    /\ seats[Key(DemoShow, 2)].status = AVAILABLE

(* ------------- book_hold called again and again on one hold ---------- *)

BookCalls == 2

InitBook == Started(Clients \cup {ReaperId}, BookCalls + 1)

(* The first call takes a hold, which gets the first id.  Every later call  *)
(* is book_hold of that hold; the first of them is made while the hold is   *)
(* there and unexpired, the others at any time, before or after the others  *)
(* return.  Time passes and the reaper runs in the background, as it does   *)
(* whenever the service is up.                                              *)
TheHold == FirstHoldId
Bookable(h) == h \in DOMAIN holds /\ ~HoldExpired(holds[h].expires_at, clock)

NextBook ==
    \/ Tick
    \/ \E p \in Clients, req \in Requests, d \in Durations :
           opsLeft = BookCalls + 1 /\ HoldBegin(p, DemoShow, req, d)
    \/ \E p \in Clients, k \in DOMAIN seats : HoldLock(p, k)
    \/ \E p \in Clients : HoldCommit(p)
    \/ \E p \in Clients :
           /\ opsLeft = BookCalls => Bookable(TheHold)
           /\ nextHold > TheHold
           /\ BookBegin(p, DemoShow, TheHold)
    \/ \E p \in Clients : BookLockHold(p)
    \/ \E p \in Clients, k \in DOMAIN seats : BookLockSeat(p, k)
    \/ \E p \in Clients : BookCommit(p)
    \/ \E p \in Procs, k \in DOMAIN seats : CleanupLock(p, k)
    \/ \E p \in Clients : BookExpiredCommit(p)
    \/ ReapBegin(ReaperId)
    \/ ReapDelete(ReaperId)
    \/ \E p \in Procs : DeadlockAbort(p)

SpecBook == InitBook /\ [][NextBook]_vars

BookReturned(p) == call[p].op = "book" /\ call[p].code # 0
BookedOnce(h, sids) ==
    /\ h \in DOMAIN bookings
    /\ bookings[h].seat_ids = sids
    /\ Cardinality(DOMAIN bookings) = 1
    /\ \A sid \in Range(sids) : seats[Key(DemoShow, sid)] = Seat(BOOKED, Null, Null)

FoundExpired(c) == c.op = "book" /\ c.error = "hold expired"

C7_SameBookedAt ==
    \A p, q \in Procs :
        (/\ BookReturned(p) /\ call[p].code = 200
         /\ BookReturned(q) /\ call[q].code = 200
         /\ call[p].id = call[q].id)
        => call[p].at = call[q].at

(* ------------------- the store's integrity (C1, C2) ------------------- *)

HoldsOf(k) == {h \in DOMAIN holds : k \in Keys(holds[h].show_id, Range(holds[h].seat_ids))}
BookingsOf(k) ==
    {b \in DOMAIN bookings : k \in Keys(bookings[b].show_id, Range(bookings[b].seat_ids))}

(* C1: in every reachable state no seat is listed by two distinct Hold rows, *)
(* and no BOOKED seat is listed by any Hold row.                            *)
C1_HoldsExclusive ==
    \A k \in DOMAIN seats :
        /\ Cardinality(HoldsOf(k)) <= 1
        /\ seats[k].status = BOOKED => HoldsOf(k) = {}

(* C2: in every reachable state a seat is listed by at most one Booking row, *)
(* a seat is BOOKED exactly when one Booking row lists it, and no more      *)
(* seats are BOOKED than the show has.                                      *)
C2_NoDoubleBooking ==
    /\ \A k \in DOMAIN seats :
          /\ Cardinality(BookingsOf(k)) <= 1
          /\ seats[k].status = BOOKED <=> Cardinality(BookingsOf(k)) = 1
    /\ Cardinality({k \in DOMAIN seats : seats[k].status = BOOKED}) <= NumSeats

(* ------------------- what a call does to the store -------------------- *)

(* C5: a hold_seats call on an existing show with valid seat_ids succeeds   *)
(* exactly when every requested seat is AVAILABLE when locked: it then      *)
(* creates the Hold and holds every requested seat; otherwise it returns    *)
(* 409 "seats unavailable" with exactly the requested seats that are not    *)
(* AVAILABLE, changes no seat and creates no Hold.                          *)
C5_AllOrNothing ==
    [][\A p \in Procs :
         Returns(p, "hold")
         => LET c == call'[p]
                un == {sid \in Range(c.req) : seats[Key(c.show, sid)].status # AVAILABLE}
            IN IF un = {}
               THEN /\ c.code = 201
                    /\ DOMAIN holds' = DOMAIN holds \cup {c.id}
                    /\ c.id \notin DOMAIN holds
                    /\ holds'[c.id] = Hold(c.show, c.req, c.at)
                    /\ \A k \in DOMAIN seats :
                           seats'[k] = IF k \in Keys(c.show, Range(c.req))
                                       THEN Seat(HELD, Val(c.id), Val(c.at))
                                       ELSE seats[k]
               ELSE /\ c.code = 409
                    /\ c.error = "seats unavailable"
                    /\ c.unavailable = un
                    /\ seats' = seats
                    /\ holds' = holds]_vars

(* C8: a successful book_hold of hold h returns the booking_id h, the hold  *)
(* id that was submitted, and a Booking row with booking_id h then exists;  *)
(* a Booking row that a step creates has the id of the hold that the call   *)
(* returning in that step has booked.                                       *)
C8_BookingIdIsHoldId ==
    [][/\ \A p \in Procs :
            (Returns(p, "book") /\ call'[p].code = 200)
            => /\ call'[p].id = call'[p].hold
               /\ call'[p].hold \in DOMAIN bookings'
               /\ bookings'[call'[p].hold].seat_ids = call'[p].seat_ids
       /\ \A b \in DOMAIN bookings' \ DOMAIN bookings :
            \E p \in Procs :
               /\ Returns(p, "book") /\ call'[p].code = 200
               /\ b = call[p].hold
               /\ b \in DOMAIN holds \ DOMAIN holds']_vars

C8_Witness ==
    \E p \in Procs :
        /\ call[p].op = "book" /\ call[p].code = 200
        /\ call[p].hold # 0 /\ call[p].id = call[p].hold
        /\ call[p].hold \in DOMAIN bookings

(* C9: once a seat is BOOKED, no step of hold_seats, book_hold,             *)
(* release_hold or the reaper changes its status or its hold fields; the    *)
(* only step that changes it is the commit of reset_all, which makes it     *)
(* AVAILABLE.                                                               *)
C9_BookedIsTerminal ==
    [][\A k \in DOMAIN seats :
         (seats[k].status = BOOKED /\ seats'[k] # seats[k])
         => /\ \E p \in Procs : Returns(p, "reset") /\ call'[p].code = 200
            /\ seats'[k] = Seat(AVAILABLE, Null, Null)]_vars

(* A BOOKED seat that a later hold_seats call asked for and did not get. *)
C9_Witness ==
    \E k \in DOMAIN seats, p \in Procs :
        /\ seats[k] = Seat(BOOKED, Null, Null)
        /\ call[p].op = "hold" /\ call[p].code = 409
        /\ k \in Keys(call[p].show, call[p].unavailable)

(* C10: every change of a seat's status is AVAILABLE -> HELD by a           *)
(* successful hold_seats that asked for the seat; HELD -> BOOKED by a       *)
(* successful book_hold of the hold that owns the seat; HELD -> AVAILABLE   *)
(* by release_hold of the owning hold, by the reaper, or by book_hold that  *)
(* found the owning hold expired; or any -> AVAILABLE by reset_all.         *)
C10_Lifecycle ==
    [][\A k \in DOMAIN seats :
         seats'[k].status # seats[k].status
         => \/ /\ seats[k].status = AVAILABLE /\ seats'[k].status = HELD
               /\ \E p \in Procs :
                      /\ Returns(p, "hold") /\ call'[p].code = 201
                      /\ k \in Keys(call[p].show, Range(call[p].req))
                      /\ seats'[k].hold_id = Val(call'[p].id)
            \/ /\ seats[k].status = HELD /\ seats'[k].status = BOOKED
               /\ \E p \in Procs :
                      /\ Returns(p, "book") /\ call'[p].code = 200
                      /\ seats[k].hold_id = Val(call[p].hold)
            \/ /\ seats[k].status = HELD /\ seats'[k].status = AVAILABLE
               /\ \E p \in Procs :
                      \/ /\ Returns(p, "release") /\ call'[p].code = 200
                         /\ seats[k].hold_id = Val(call[p].hold)
                      \/ Returns(p, "reap")
                      \/ /\ Returns(p, "book") /\ call'[p].error = "hold expired"
                         /\ seats[k].hold_id = Val(call[p].hold)
            \/ /\ seats'[k].status = AVAILABLE
               /\ \E p \in Procs : Returns(p, "reset") /\ call'[p].code = 200]_vars

(* A seat that went AVAILABLE -> HELD by one client's hold_seats and then   *)
(* HELD -> BOOKED by another client's book_hold of that hold.               *)
C10_Witness ==
    \E k \in DOMAIN seats, p, q \in Procs :
        /\ seats[k].status = BOOKED
        /\ call[q].op = "hold" /\ call[q].code = 201
        /\ call[p].op = "book" /\ call[p].code = 200 /\ call[p].hold = call[q].id
        /\ k \in Keys(call[p].show, Range(call[p].seat_ids))

(* ------------------- a second show, created at run time --------------- *)

OtherShow == "other_show"
ShowIds == {DemoShow, OtherShow}

(* Every operation, on the demo show or on a show that a client creates. *)
NextShows ==
    \/ Tick
    \/ \E p \in Clients, show \in ShowIds, req \in Requests :
           InitializeBegin(p, show, req)
    \/ \E p \in Clients : InitializeCommit(p)
    \/ \E p \in Clients, show \in ShowIds, req \in Requests, d \in Durations :
           HoldBegin(p, show, req, d)
    \/ \E p \in Clients, k \in DOMAIN seats : HoldLock(p, k)
    \/ \E p \in Clients : HoldCommit(p)
    \/ \E p \in Clients, show \in ShowIds, h \in IssuedOrUnknown : BookBegin(p, show, h)
    \/ \E p \in Clients : BookLockHold(p)
    \/ \E p \in Clients, k \in DOMAIN seats : BookLockSeat(p, k)
    \/ \E p \in Clients : BookCommit(p)
    \/ \E p \in Clients : BookExpiredCommit(p)
    \/ \E p \in Procs, k \in DOMAIN seats : CleanupLock(p, k)
    \/ \E p \in Clients, show \in ShowIds, h \in IssuedOrUnknown : ReleaseBegin(p, show, h)
    \/ \E p \in Clients : ReleaseCommit(p)
    \/ ReapBegin(ReaperId)
    \/ ReapDelete(ReaperId)
    \/ \E p \in Clients : ResetBegin(p)
    \/ \E p \in Clients, h \in DOMAIN holds : ResetLockHold(p, h)
    \/ \E p \in Clients : ResetBookings(p)
    \/ \E p \in Clients, k \in DOMAIN seats : ResetLockSeat(p, k)
    \/ \E p \in Clients : ResetCommit(p)
    \/ \E p \in Procs : DeadlockAbort(p)

SpecShows == Init /\ [][NextShows]_vars

Statuses == {AVAILABLE, HELD, BOOKED}

(* The seats of every show are counted in full by the three statuses. *)
SeatCountHolds ==
    /\ SeatRows(DemoShow) = Keys(DemoShow, SeatIds)
    /\ \A k \in DOMAIN seats : k[1] \in shows /\ seats[k].status \in Statuses
    /\ \A show \in shows :
           /\ SeatStatusSummary(show).total_seats = Cardinality(SeatRows(show))
           /\ SeatStatusSummary(show).available_seats
              + SeatStatusSummary(show).held_seats
              + SeatStatusSummary(show).booked_seats = Cardinality(SeatRows(show))

(* C11: for every show, after every committed transaction of any operation  *)
(* in any interleaving, the seat set of the show is the one given to the    *)
(* initialize_show call that created it, no step adds or removes a seat of  *)
(* an existing show, every seat has one of the three statuses, and          *)
(* available + held + booked is the number of seats of the show, which is   *)
(* the total_seats that get_seat_status reports.                            *)
C11_SeatCount ==
    [][/\ SeatCountHolds /\ SeatCountHolds'
       /\ \A show \in shows : show \in shows' /\ SeatRows(show)' = SeatRows(show)
       /\ \A show \in shows' \ shows :
              \E p \in Procs :
                 /\ Returns(p, "init") /\ call'[p].code = 201
                 /\ call[p].show = show
                 /\ SeatRows(show)' = Keys(show, Range(call[p].req))
                 /\ \A k \in SeatRows(show)' : seats'[k] = Seat(AVAILABLE, Null, Null)]_vars

(* A show created with two seats, one of them since held and booked. *)
C11_Witness ==
    /\ OtherShow \in shows
    /\ SeatRows(OtherShow) = Keys(OtherShow, {1, 2})
    /\ SeatStatusSummary(OtherShow) =
          [total_seats |-> 2, available_seats |-> 1, held_seats |-> 0, booked_seats |-> 1]

(* ------------------------ book_hold on an expired hold ---------------- *)

(* C12: a book_hold call that has found the hold, with expires_at <= the    *)
(* clock value it read, returns 400 "hold expired"; it creates no Booking,  *)
(* the Hold row is gone, and the seats of the hold are AVAILABLE with       *)
(* hold_id and hold_expires_at cleared.                                     *)
C12_ExpiredHoldCleanedUp ==
    [][\A p \in Procs :
         (Returns(p, "book") /\ tx[p].pc = "book_cleanup")
         => /\ call'[p].code = 400 /\ call'[p].error = "hold expired"
            /\ bookings' = bookings
            /\ tx[p].hold \in DOMAIN holds /\ tx[p].hold \notin DOMAIN holds'
            /\ \A k \in Keys(tx[p].show, Range(tx[p].req)) :
                   seats'[k] = Seat(AVAILABLE, Null, Null)]_vars

(* ----------------- holds left to expire, and the reaper --------------- *)

ReapCalls == 2

InitReap == Started(Clients \cup {ReaperId}, ReapCalls)

(* Clients take holds and never book or release them; time passes and the  *)
(* reaper runs.                                                            *)
NextReap ==
    \/ Tick
    \/ \E p \in Clients, req \in Requests, d \in Durations :
           HoldBegin(p, DemoShow, req, d)
    \/ \E p \in Clients, k \in DOMAIN seats : HoldLock(p, k)
    \/ \E p \in Clients : HoldCommit(p)
    \/ ReapBegin(ReaperId)
    \/ \E k \in DOMAIN seats : CleanupLock(ReaperId, k)
    \/ ReapDelete(ReaperId)
    \/ \E p \in Procs : DeadlockAbort(p)

(* The reaper thread loops for as long as the service is up and the store   *)
(* looks for deadlocks.  A request thread runs its call to the end; a lock  *)
(* it waits for is granted to it when the holder ends, since the store      *)
(* queues the waiters of a row, so a call that can go on again and again    *)
(* does go on.                                                             *)
ReapFairness ==
    /\ WF_vars(ReapBegin(ReaperId))
    /\ WF_vars(\E k \in DOMAIN seats : CleanupLock(ReaperId, k))
    /\ WF_vars(ReapDelete(ReaperId))
    /\ \A p \in Clients :
           SF_vars(HoldCommit(p) \/ \E k \in DOMAIN seats : HoldLock(p, k))
    /\ WF_vars(\E p \in Procs : DeadlockAbort(p))

SpecReap == InitReap /\ [][NextReap]_vars /\ ReapFairness

HoldIds == FirstHoldId..(FirstHoldId + ReapCalls - 1)
Due(h) == h \in DOMAIN holds /\ holds[h].expires_at <= clock
HeldPastExpiry(k) ==
    seats[k].status = HELD /\ \E e \in seats[k].hold_expires_at : e <= clock
TickEnds == tx[ReaperId].pc = "reap_update" /\ tx'[ReaperId].pc = "idle"

(* C13 as claimed: a hold that is never booked or released is removed by    *)
(* the first reaper tick that starts at or after its expires_at: when a     *)
(* tick ends, no hold is left that had expired when the tick started.       *)
C13_FirstTickRemoves ==
    [][TickEnds => \A h \in DOMAIN holds' :
                       holds'[h].expires_at > tx[ReaperId].now]_vars

(* C13 as amended: under weak fairness of the reaper and with no store      *)
(* error that persists, every hold that is never booked or released is     *)
(* removed by a reaper tick that starts at or after its expires_at, and    *)
(* that tick makes its seats AVAILABLE; no seat stays HELD by an expired    *)
(* hold forever.                                                           *)
C13_ExpiredHoldsAreReaped ==
    /\ \A h \in HoldIds : []<>(~Due(h))
    /\ \A k \in Keys(DemoShow, SeatIds) : []<>(~HeldPastExpiry(k))
    /\ [][\A h \in DOMAIN holds \ DOMAIN holds' :
            /\ TickEnds
            /\ holds[h].expires_at <= tx[ReaperId].now
            /\ \A k \in Keys(holds[h].show_id, Range(holds[h].seat_ids)) :
                   seats'[k] = Seat(AVAILABLE, Null, Null)]_vars

(* A hold of two seats has expired and a tick has removed it. *)
C13_Witness ==
    /\ call[ReaperId].op = "reap" /\ call[ReaperId].count = 1
    /\ holds = <<>> /\ nextHold = FirstHoldId + 1
    /\ \E p \in Clients : call[p].code = 201 /\ call[p].seat_ids = <<1, 2>>
    /\ \A k \in DOMAIN seats : seats[k] = Seat(AVAILABLE, Null, Null)

(* ------------------ hold_seats, release_hold, hold again -------------- *)

ReleaseCalls == 5

InitRelease == Started(Clients \cup {ReaperId}, ReleaseCalls)

(* Client 1 holds a seat set S; client 2 releases that hold; client 1 then *)
(* holds S again.  Nothing else works on S meanwhile: before its release   *)
(* client 2 holds and books single seats outside S, time passes, and the   *)
(* reaper runs when it finds no hold on S.                                 *)
TheSeats == Range(call[1].req)
Released == call[2].op = "release" /\ call[2].code # 0
Outside(req) == call[1].op = "hold" /\ Len(req) = 1 /\ Range(req) \cap TheSeats = {}

NextRelease ==
    \/ Tick
    \/ \E req \in Requests, d \in Durations :
           call[1].op = "" /\ HoldBegin(1, DemoShow, req, d)
    \/ \E req \in Requests, d \in Durations :
           /\ call[2].op # "release" /\ Outside(req)
           /\ HoldBegin(2, DemoShow, req, d)
    \/ /\ call[2].op = "hold" /\ call[2].code = 201
       /\ BookBegin(2, DemoShow, call[2].id)
    \/ /\ call[1].code = 201 /\ call[2].op # "release"
       /\ ReleaseBegin(2, DemoShow, call[1].id)
    \/ \E d \in Durations :
           /\ Released /\ call[1].id = call[2].hold
           /\ HoldBegin(1, DemoShow, call[1].req, d)
    \/ \E p \in Clients, k \in DOMAIN seats : HoldLock(p, k)
    \/ \E p \in Clients : HoldCommit(p)
    \/ \E p \in Clients : BookLockHold(p)
    \/ \E p \in Clients : BookCommit(p)
    \/ \E p \in Clients : BookExpiredCommit(p)
    \/ \E p \in Procs, k \in DOMAIN seats : CleanupLock(p, k)
    \/ \E p \in Clients : ReleaseCommit(p)
    \/ /\ \A h \in ExpiredHolds(clock) : Range(holds[h].seat_ids) \cap TheSeats = {}
       /\ ReapBegin(ReaperId)
    \/ ReapDelete(ReaperId)
    \/ \E p \in Procs : DeadlockAbort(p)

SpecRelease == InitRelease /\ [][NextRelease]_vars

(* C14: after a successful hold_seats on a seat set S and release_hold of   *)
(* the hold it returned, with no other operation on S in between,           *)
(* release_hold has reported success, the Hold row is gone, every seat of S *)
(* is AVAILABLE with hold_id and hold_expires_at cleared, and a hold_seats  *)
(* call for S that follows succeeds and holds every seat of S.              *)
C14_HoldThenRelease ==
    Released
    => /\ call[2].code = 200
       /\ call[2].hold \notin DOMAIN holds
       /\ (call[1].id = call[2].hold \/ call[1].code = 0)
          => \A sid \in TheSeats :
                 seats[Key(DemoShow, sid)] = Seat(AVAILABLE, Null, Null)
       /\ (call[1].id # call[2].hold /\ call[1].code # 0)
          => /\ call[1].code = 201
             /\ \A sid \in TheSeats : HeldBy(sid, 1)

(* Two seats held, released by the other client, and held again. *)
C14_Witness ==
    /\ Released /\ call[2].code = 200
    /\ call[1].req = <<1, 2>> /\ call[1].code = 201 /\ call[1].id # call[2].hold
    /\ \A sid \in TheSeats : HeldBy(sid, 1)

(* ---------------------- release_hold, called again -------------------- *)

WasReleased(h) ==
    \E q \in Procs : call[q].op = "release" /\ call[q].hold = h /\ call[q].code = 200

(* C15: once a release_hold of a hold has reported success, the Hold row is *)
(* gone for good, and every release_hold call for that hold_id made from    *)
(* then on returns 404 "hold not found" from the lookup, without entering   *)
(* the cleanup and without changing any seat, hold or booking.              *)
C15_ReleaseAgainNotFound ==
    [][\A p \in Procs :
         /\ WasReleased(call[p].hold) /\ call[p].op = "release"
            => call[p].hold \notin DOMAIN holds
         /\ (tx[p].pc = "idle" /\ tx'[p].pc = "release_update")
            => ~WasReleased(tx'[p].hold)
         /\ (/\ tx[p].pc = "idle" /\ tx'[p].pc = "idle"
             /\ call'[p] # call[p] /\ call'[p].op = "release"
             /\ WasReleased(call'[p].hold))
            => /\ call'[p].code = 404 /\ call'[p].error = "hold not found"
               /\ UNCHANGED <<shows, seats, holds, bookings>>]_vars

(* A hold released by one client; the other client's release of it then    *)
(* finds nothing.                                                          *)
C15_Witness ==
    \E p, q \in Clients :
        /\ p # q /\ call[p].hold = call[q].hold /\ call[p].hold >= FirstHoldId
        /\ call[p].op = "release" /\ call[p].code = 200
        /\ call[q].op = "release" /\ call[q].code = 404
        /\ \A k \in DOMAIN seats : seats[k] = Seat(AVAILABLE, Null, Null)

(* ------------------------------ reset_all ----------------------------- *)

(* C16: immediately after reset_all commits, in any interleaving with other *)
(* operations, there is no Hold row and no Booking row, and every seat of   *)
(* every show is AVAILABLE with hold_id and hold_expires_at cleared; shows  *)
(* and seat sets are as they were.                                          *)
C16_ResetIsFresh ==
    [][\A p \in Procs :
         (Returns(p, "reset") /\ call'[p].code = 200)
         => /\ holds' = <<>>
            /\ bookings' = <<>>
            /\ shows' = shows
            /\ seats' = [k \in DOMAIN seats |-> Seat(AVAILABLE, Null, Null)]]_vars

(* --------------------- seats, holds and their fields ------------------ *)

(* C17: at every transaction boundary, under any interleaving of all        *)
(* operations including reset_all and the reaper, every seat listed in a    *)
(* Hold row H has status HELD and hold_id = H.hold_id.                      *)
C17_HoldOwnsItsSeats ==
    \A h \in DOMAIN holds :
        \A k \in Keys(holds[h].show_id, Range(holds[h].seat_ids)) :
            seats[k].status = HELD /\ seats[k].hold_id = Val(h)

(* C18: at every transaction boundary a seat is HELD iff both its hold_id   *)
(* and its hold_expires_at are set, and every AVAILABLE or BOOKED seat has  *)
(* both fields cleared.                                                     *)
C18_HoldFieldsMatchStatus ==
    \A k \in DOMAIN seats :
        /\ seats[k].status = HELD
           <=> (seats[k].hold_id # Null /\ seats[k].hold_expires_at # Null)
        /\ seats[k].status \in {AVAILABLE, BOOKED}
           => (seats[k].hold_id = Null /\ seats[k].hold_expires_at = Null)

(* One seat booked, its hold fields cleared, while the other is held. *)
C18_Witness ==
    \E k, j \in DOMAIN seats :
        /\ seats[k] = Seat(BOOKED, Null, Null)
        /\ seats[j].status = HELD
        /\ seats[j].hold_id # Null /\ seats[j].hold_expires_at # Null

(* ------------------------------ lock order ---------------------------- *)

(* C19: concurrent operations on overlapping seat sets never deadlock: no   *)
(* reachable state has a cycle of hold_seats or book_hold transactions each *)
(* waiting for a seat lock that another one holds.                          *)
C19_NoSeatLockCycle ==
    \A p \in Procs :
        ~(/\ tx[p].pc \in {"hold_lock", "book_seats"}
          /\ InWaitCycle(p)
          /\ \A q \in Procs :
                 WaitsFor(p, q) => /\ tx[q].pc \in {"hold_lock", "book_seats"}
                                   /\ WantSeats(p) \cap tx[q].seatlocks # {})

(* C20: book_hold, release_hold and the reaper take the Hold row before the *)
(* seat rows, so a book_hold that runs beside a release_hold or a reaper    *)
(* tick on the same hold never reaches a deadlock: no reachable state has   *)
(* the two waiting for each other.                                          *)
C20_HoldBeforeSeats ==
    \A p, q \in Procs :
        ~(/\ tx[p].pc \in {"book_seats", "book_cleanup"}
          /\ tx[q].pc \in {"release_update", "reap_update"}
          /\ tx[p].hold = tx[q].hold
          /\ WaitsFor(p, q) /\ WaitsFor(q, p))

(* --------------------- hold_seats on disjoint seat sets --------------- *)

Disjoint(p, q) == Range(call[p].req) \cap Range(call[q].req) = {}

C22_UnknownShowIs404 ==
    \A p \in Procs :
        (/\ call[p].op \in {"hold", "book", "release"}
         /\ call[p].code # 0
         /\ call[p].show \notin shows)
        => call[p].code = 404 /\ call[p].error = "show not found"

(* ------------------- hold_seats with seat_ids that are wrong ---------- *)

InvalidCalls == 3

InitInvalid == Started(Clients, InvalidCalls)

(* An empty list, a list with a duplicate, and lists with a seat id that    *)
(* the show does not have.                                                  *)
UnknownSeat == NumSeats + 1
BadRequests == {<<>>, <<1, 1>>, <<UnknownSeat>>, <<1, UnknownSeat>>}

(* Clients ask for holds with good and bad lists, and book the holds made. *)
NextInvalid ==
    \/ \E p \in Clients, req \in Requests \cup BadRequests, d \in Durations :
           HoldBegin(p, DemoShow, req, d)
    \/ \E p \in Clients, k \in DOMAIN seats : HoldLock(p, k)
    \/ \E p \in Clients : HoldCommit(p)
    \/ \E p \in Clients, h \in DOMAIN holds : BookBegin(p, DemoShow, h)
    \/ \E p \in Clients : BookLockHold(p)
    \/ \E p \in Clients, k \in DOMAIN seats : BookLockSeat(p, k)
    \/ \E p \in Clients : BookCommit(p)
    \/ \E p \in Clients : DeadlockAbort(p)

SpecInvalid == InitInvalid /\ [][NextInvalid]_vars

InvalidSeatIds(c) ==
    /\ c.code = 400
    /\ c.error \in {"seat_ids invalid", "invalid seat ID(s)", "duplicate seats in request"}

(* C23: hold_seats called with an empty seat_ids list, a list containing a  *)
(* duplicate, or a seat_id that does not belong to the show returns         *)
(* InvalidSeatIds (400), at once: it takes no lock, creates no Hold row and *)
(* changes no seat.                                                         *)
C23_InvalidSeatIdsRejected ==
    [][\A p \in Procs :
         /\ (call[p].op = "hold" /\ call[p].req \in BadRequests)
            => InvalidSeatIds(call[p]) /\ tx[p] = IdleTx
         /\ (call'[p] # call[p] /\ call'[p].op = "hold" /\ call'[p].req \in BadRequests)
            => /\ InvalidSeatIds(call'[p])
               /\ UNCHANGED <<shows, seats, holds, bookings, nextHold, tx>>]_vars

(* One seat held by one client; the other client's calls with an unknown    *)
(* seat beside it and with a duplicate have been refused.                   *)
C23_Witness ==
    \E p, q \in Clients :
        /\ call[p].code = 201 /\ HeldBy(1, p)
        /\ call[q].req = <<1, UnknownSeat>> /\ call[q].error = "invalid seat ID(s)"
        /\ DOMAIN holds = {call[p].id}
        /\ seats[Key(DemoShow, 2)] = Seat(AVAILABLE, Null, Null)

WellFormed(show, sids) ==
    /\ Len(sids) > 0
    /\ Cardinality(Range(sids)) = Len(sids)
    /\ show \in shows
    /\ Keys(show, Range(sids)) \subseteq DOMAIN seats

(* C24: in every reachable state, every Hold row and every Booking row      *)
(* lists a non-empty, duplicate-free list of seat_ids, all of which are     *)
(* seats of the row's show.                                                 *)
C24_RowsListRealSeats ==
    /\ \A h \in DOMAIN holds : WellFormed(holds[h].show_id, holds[h].seat_ids)
    /\ \A b \in DOMAIN bookings : WellFormed(bookings[b].show_id, bookings[b].seat_ids)

(* A booking of two seats beside a call that was refused for its list. *)
C24_Witness ==
    /\ \E b \in DOMAIN bookings : bookings[b].seat_ids = <<1, 2>>
    /\ \E p \in Clients : call[p].req \in BadRequests /\ call[p].code = 400

(* ----------------------- hold_duration_seconds ------------------------ *)

DurationCalls == 2

InitDuration == Started(Clients, DurationCalls)

(* What clients send as hold_duration_seconds: nothing, or an integer below, *)
(* at, between and above the two limits.                                    *)
SentDurations ==
    {Null} \cup {Val(d) : d \in {-MinHoldSeconds, -1, 0, 1, MinHoldSeconds - 1,
                                MinHoldSeconds, MinHoldSeconds + 1, 2 * MinHoldSeconds,
                                MaxHoldSeconds - 1, MaxHoldSeconds, MaxHoldSeconds + 1,
                                10000}}

NextDuration ==
    \/ Tick
    \/ \E p \in Clients, req \in Requests, raw \in SentDurations :
           HoldBegin(p, DemoShow, req, DurationInt(raw))
    \/ \E p \in Clients, k \in DOMAIN seats : HoldLock(p, k)
    \/ \E p \in Clients : HoldCommit(p)
    \/ \E p \in Clients : DeadlockAbort(p)

SpecDuration == InitDuration /\ [][NextDuration]_vars

(* The duration the claim gives for what was sent. *)
ClaimedDuration(raw) ==
    IF raw = Null THEN 60
    ELSE LET d == CHOOSE x \in raw : TRUE
         IN IF d < 60 THEN 60 ELSE IF d > 1800 THEN 1800 ELSE d

(* C25: for every integer d sent as hold_duration_seconds the duration that *)
(* hold_seats gets is max(60, min(d, 1800)), and 60 when nothing is sent:   *)
(* the hold that the call sets out to make expires that long after the      *)
(* clock value read.                                                        *)
C25_DurationClamped ==
    [][\A p \in Clients, req \in Requests, raw \in SentDurations :
         HoldBegin(p, DemoShow, req, DurationInt(raw))
         => /\ tx'[p].pc = "hold_lock"
            /\ tx'[p].expires = clock + ClaimedDuration(raw)]_vars

(* Holds made at time 0 with 10000 and with 0 sent. *)
C25_Witness ==
    /\ clock = 0
    /\ \E p, q \in Clients :
           /\ call[p].code = 201 /\ call[p].at = 1800
           /\ call[q].code = 201 /\ call[q].at = 60

(* ------------------- errors that leave the store alone ----------------- *)

(* HoldNotFound and HoldInvalidated of book_hold, HoldNotFound of           *)
(* release_hold, ShowNotFound of hold_seats, ShowAlreadyExists of           *)
(* initialize_show (found by the SELECT, or by the primary key at commit).  *)
QuietError(c) ==
    \/ c.op = "book" /\ c.error \in {"hold not found or expired",
                                     "hold invalidated (seat state mismatch)"}
    \/ c.op = "release" /\ c.error = "hold not found"
    \/ c.op = "hold" /\ c.error = "show not found"
    \/ c.op = "init" /\ c.error \in {"show already exists", "database integrity error"}

(* C26: the step in which a call returns one of these errors changes no     *)
(* show, seat, hold or booking, and neither does any earlier step of a      *)
(* hold_seats, book_hold, release_hold or initialize_show call: such a call *)
(* writes only in the step that commits it.                                 *)
C26_ErrorsChangeNothing ==
    [][\A p \in Procs :
         /\ (call'[p] # call[p] /\ call'[p].code # 0 /\ QuietError(call'[p]))
            => UNCHANGED <<shows, seats, holds, bookings>>
         /\ (/\ tx'[p] # tx[p]
             /\ call'[p].code = 0
             /\ call'[p].op \in {"hold", "book", "release", "init"})
            => UNCHANGED <<shows, seats, holds, bookings>>]_vars

(* An initialize_show refused at its commit next to a book_hold that found  *)
(* no hold.                                                                 *)
C26_Witness ==
    \E p, q \in Clients :
        /\ call[p].op = "init" /\ call[p].error = "database integrity error"
        /\ call[q].op = "book" /\ call[q].error = "hold not found or expired"

(* -------------------- concurrent initialize_show ----------------------- *)

InitCalls == 4

InitInitialize == Started(Clients, InitCalls)

(* Clients initialize shows, the same show too, and hold seats of the shows *)
(* there are.                                                               *)
NextInitialize ==
    \/ \E p \in Clients, show \in ShowIds, req \in Requests :
           InitializeBegin(p, show, req)
    \/ \E p \in Clients : InitializeCommit(p)
    \/ \E p \in Clients, show \in ShowIds, req \in Requests :
           HoldBegin(p, show, req, DefaultHoldSeconds)
    \/ \E p \in Clients, k \in DOMAIN seats : HoldLock(p, k)
    \/ \E p \in Clients : HoldCommit(p)
    \/ \E p \in Clients : DeadlockAbort(p)

SpecInitialize == InitInitialize /\ [][NextInitialize]_vars

(* C27: of the initialize_show calls for one show, the one that returns     *)
(* while the show does not exist succeeds, and with that the show exists    *)
(* for good: every other call returns 409.  The winner's step gives the     *)
(* show exactly the seats of its seat_ids, AVAILABLE and without hold       *)
(* fields; a call that fails adds and changes no seat, and no other step    *)
(* adds or removes a seat of a show.                                        *)
C27_OneInitializeWins ==
    [][/\ shows \subseteq shows'
       /\ DOMAIN seats \subseteq DOMAIN seats'
       /\ \A p \in Clients :
            IF call'[p] # call[p] /\ call'[p].op = "init" /\ call'[p].code # 0
            THEN LET show == call'[p].show
                     sids == Range(call'[p].req)
                 IN IF show \notin shows
                    THEN /\ call'[p].code = 201
                         /\ shows' = shows \cup {show}
                         /\ {k \in DOMAIN seats' : k[1] = show} = Keys(show, sids)
                         /\ \A k \in Keys(show, sids) :
                                seats'[k] = Seat(AVAILABLE, Null, Null)
                         /\ \A k \in DOMAIN seats : seats'[k] = seats[k]
                    ELSE /\ call'[p].code = 409
                         /\ UNCHANGED <<shows, seats>>
            ELSE tx'[p] # tx[p] => /\ shows' = shows
                                   /\ DOMAIN seats' = DOMAIN seats]_vars

(* Both clients have tried to initialize the other show with different      *)
(* seats; the one that lost did so at its commit.                           *)
C27_Witness ==
    \E p, q \in Clients :
        /\ call[p].op = "init" /\ call[p].show = OtherShow /\ call[p].code = 201
        /\ call[q].op = "init" /\ call[q].show = OtherShow /\ call[q].code = 409
        /\ call[q].error = "database integrity error"
        /\ call[p].req # call[q].req
        /\ {k \in DOMAIN seats : k[1] = OtherShow} = Keys(OtherShow, Range(call[p].req))

(* ------------------------ the effect of book_hold ---------------------- *)

(* The call of p is book_hold of a hold that is there, belongs to the show  *)
(* of the call, has not expired at the time the call read, and holds all    *)
(* its seats.                                                               *)
BooksLiveHold(p) ==
    /\ call[p].op = "book" /\ call[p].code = 0
    /\ call[p].hold \in DOMAIN holds
    /\ LET H == holds[call[p].hold] IN
        /\ H.show_id = call[p].show
        /\ ~HoldExpired(H.expires_at, tx[p].now)
        /\ \A sid \in Range(H.seat_ids) :
               /\ Key(H.show_id, sid) \in DOMAIN seats
               /\ seats[Key(H.show_id, sid)].status = HELD
               /\ seats[Key(H.show_id, sid)].hold_id = Val(call[p].hold)

(* What the claim says such a call does in the step in which it returns. *)
BookEffect(p) ==
    LET h == call[p].hold
        H == holds[h]
        ks == Keys(H.show_id, Range(H.seat_ids))
    IN /\ call'[p].code = 200
       /\ DOMAIN seats' = DOMAIN seats
       /\ \A k \in DOMAIN seats :
              seats'[k] = IF k \in ks THEN Seat(BOOKED, Null, Null) ELSE seats[k]
       /\ DOMAIN holds' = DOMAIN holds \ {h}
       /\ \A g \in DOMAIN holds' : holds'[g] = holds[g]
       /\ Cardinality(DOMAIN bookings' \ DOMAIN bookings) = 1
       /\ \A b \in DOMAIN bookings' \ DOMAIN bookings :
              bookings'[b].seat_ids = H.seat_ids /\ bookings'[b].show_id = H.show_id
       /\ \A b \in DOMAIN bookings : b \in DOMAIN bookings' /\ bookings'[b] = bookings[b]
       /\ shows' = shows

(* C28 as claimed: book_hold of an existing, unexpired hold H whose seats   *)
(* are all HELD by H succeeds and in one step books exactly the seats of H, *)
(* inserts one Booking with the seat_ids of H, deletes the Hold row and     *)
(* leaves every other seat, hold and booking as it was.                     *)
C28_BookHoldEffect ==
    [][\A p \in Clients :
         (BooksLiveHold(p) /\ call'[p].code # 0) => BookEffect(p)]_vars

(* --------------------------- a failed tick ----------------------------- *)

(* The tick of the reaper ends with an exception inside                     *)
(* cleanup_expired_holds: it had found expired holds and returns 0.         *)
TickFails ==
    /\ tx[ReaperId].pc = "reap_update"
    /\ tx'[ReaperId].pc = "idle"
    /\ call'[ReaperId].count = 0

(* The reaper is between two ticks, the last one has cleaned up nothing and *)
(* an expired hold is there.                                                *)
CleanupOwed ==
    /\ tx[ReaperId].pc = "idle"
    /\ call[ReaperId].op = "reap" /\ call[ReaperId].count = 0
    /\ \E h \in DOMAIN holds : Due(h)

CleanupSleep ==
    /\ cleanup_thread = "running"
    /\ tx[ReaperId].pc = "idle"
    /\ call[ReaperId].code # 0
    /\ cleanup_thread' = "sleeping"
    /\ UNCHANGED <<clock, shows, seats, holds, bookings, nextHold, tx, call, opsLeft,
                   active_cleanup>>

(* time.sleep returns and `while active_cleanup` is tested *)
CleanupWake ==
    /\ cleanup_thread = "sleeping"
    /\ IF active_cleanup
       THEN /\ cleanup_thread' = "running"
            /\ call' = [call EXCEPT ![ReaperId] = NoCall]
       ELSE /\ cleanup_thread' = "disposing"
            /\ call' = call
    /\ UNCHANGED <<clock, shows, seats, holds, bookings, nextHold, tx, opsLeft,
                   active_cleanup>>

(* thread_db.engine.dispose(), and the thread function returns *)
CleanupDispose ==
    /\ cleanup_thread = "disposing"
    /\ cleanup_thread' = "terminated"
    /\ UNCHANGED <<clock, shows, seats, holds, bookings, nextHold, tx, call, opsLeft,
                   active_cleanup>>

(* The next tick of the loop: cleanup_expired_holds is called once per turn *)
CleanupTick ==
    /\ cleanup_thread = "running"
    /\ call[ReaperId].code = 0
    /\ ReapBegin(ReaperId)

(* stop_background_cleanup as the handler of SIGTERM and SIGINT: the        *)
(* process goes on.                                                         *)
StopBackgroundCleanup ==
    /\ active_cleanup
    /\ active_cleanup' = FALSE
    /\ UNCHANGED <<clock, shows, seats, holds, bookings, nextHold, tx, call, opsLeft,
                   cleanup_thread>>

(* stop_background_cleanup as the atexit callback: the interpreter is on    *)
(* its way out and does not wait for a daemon thread; the thread stops      *)
(* where it is, and the store rolls back what the connections that go away  *)
(* had open.                                                                *)
InterpreterExit ==
    /\ cleanup_thread \notin {"terminated", "killed"}
    /\ active_cleanup' = FALSE
    /\ cleanup_thread' = "killed"
    /\ tx' = [p \in DOMAIN tx |-> IdleTx]
    /\ UNCHANGED <<clock, shows, seats, holds, bookings, nextHold, call, opsLeft>>

ShutdownCalls == 2

InitShutdown == Started(Clients \cup {ReaperId}, ShutdownCalls)

ProcessUp == cleanup_thread # "killed"

(* Clients take holds, time passes, the reaper thread runs its loop, and at *)
(* some time the service is told to stop or the interpreter exits.          *)
NextShutdown ==
    \/ ProcessUp /\ Tick
    \/ \E p \in Clients, req \in Requests :
           ProcessUp /\ HoldBegin(p, DemoShow, req, DefaultHoldSeconds)
    \/ \E p \in Clients, k \in DOMAIN seats : HoldLock(p, k)
    \/ \E p \in Clients : HoldCommit(p)
    \/ CleanupTick
    \/ \E k \in DOMAIN seats : CleanupLock(ReaperId, k)
    \/ ReapDelete(ReaperId)
    \/ \E p \in Procs : DeadlockAbort(p)
    \/ CleanupSleep
    \/ CleanupWake
    \/ CleanupDispose
    \/ StopBackgroundCleanup
    \/ InterpreterExit

ShutdownFairness ==
    /\ WF_vars(CleanupTick)
    /\ WF_vars(\E k \in DOMAIN seats : CleanupLock(ReaperId, k))
    /\ WF_vars(ReapDelete(ReaperId))
    /\ WF_vars(CleanupSleep)
    /\ WF_vars(CleanupWake)
    /\ WF_vars(CleanupDispose)
    /\ \A p \in Clients :
           SF_vars(HoldCommit(p) \/ \E k \in DOMAIN seats : HoldLock(p, k))
    /\ WF_vars(\E p \in Procs : DeadlockAbort(p))

SpecShutdown == InitShutdown /\ [][NextShutdown]_vars /\ ShutdownFairness

(* C30 as claimed: once stop_background_cleanup has set the flag, a tick    *)
(* that is in flight ends by returning, the next test of the flag starts no *)
(* tick, and the thread leaves its loop, disposes its store handle and      *)
(* terminates: it passes at most the rest of one tick and one sleep.        *)
C30_GracefulShutdown ==
    /\ [][~active_cleanup' =>
            /\ (tx[ReaperId].pc # "idle" /\ tx'[ReaperId].pc = "idle")
               => call'[ReaperId].code # 0
            /\ (~active_cleanup /\ cleanup_thread = "sleeping")
               => cleanup_thread' # "running"
            /\ cleanup_thread' \in {"running", "sleeping", "disposing", "terminated"}
            /\ cleanup_thread' = "terminated"
               => cleanup_thread \in {"disposing", "terminated"}]_vars
    /\ ~active_cleanup ~> (cleanup_thread = "terminated")

(* ------------------- get_seat_status while writers commit -------------- *)

StatusCalls == 3

InitStatus == Started(Clients, StatusCalls)

(* One client asks for the seat status of a show while the other takes      *)
(* holds, or both do either.                                                *)
NextStatus ==
    \/ \E p \in Clients, show \in ShowIds : StatusBegin(p, show)
    \/ \E p \in Clients : StatusDetails(p)
    \/ \E p \in Clients, req \in Requests :
           HoldBegin(p, DemoShow, req, DefaultHoldSeconds)
    \/ \E p \in Clients, k \in DOMAIN seats : HoldLock(p, k)
    \/ \E p \in Clients : HoldCommit(p)
    \/ \E p \in Clients : DeadlockAbort(p)

SpecStatus == InitStatus /\ [][NextStatus]_vars

(* The number of entries of the seats array of the reply c with status st. *)
Listed(c, st) == Cardinality({k \in DOMAIN c.detail : c.detail[k].status = st})

(* C31 as claimed: every get_seat_status response is a consistent snapshot: *)
(* available_seats, held_seats and booked_seats are the numbers of entries  *)
(* of its own seats array with that status, and total_seats is the length   *)
(* of that array.                                                           *)
C31_ConsistentSnapshot ==
    \A p \in Clients :
        (call[p].op = "status" /\ call[p].code = 200)
        => /\ call[p].summary.available_seats = Listed(call[p], AVAILABLE)
           /\ call[p].summary.held_seats = Listed(call[p], HELD)
           /\ call[p].summary.booked_seats = Listed(call[p], BOOKED)
           /\ call[p].summary.total_seats = Cardinality(DOMAIN call[p].detail)

(* ------------------------ what _cleanup_hold resets -------------------- *)

CleanupPcs == {"book_cleanup", "release_update", "reap_update"}

(* The holds that the transaction of p cleans up: the one at hand and, for  *)
(* the reaper, those it has dealt with before in the same tick.             *)
HoldsCleaned(p) == tx[p].holdlocks \cup {tx[p].hold}

(* C32: a step of a transaction that runs _cleanup_hold (release_hold, the  *)
(* reaper, book_hold on an expired hold) changes only seats that are HELD   *)
(* by a hold it cleans up, and makes them AVAILABLE without hold fields: a  *)
(* seat that is BOOKED, AVAILABLE or HELD by another hold stays as it is,   *)
(* also when the hold was read before others released and re-held its seats. *)
C32_CleanupTouchesOwnSeats ==
    [][\A p \in Procs :
         (tx[p].pc \in CleanupPcs /\ tx'[p] # tx[p])
         => \A k \in DOMAIN seats :
                seats'[k] # seats[k]
                => /\ seats[k].status = HELD
                   /\ \E h \in HoldsCleaned(p) : seats[k].hold_id = Val(h)
                   /\ seats'[k] = Seat(AVAILABLE, Null, Null)]_vars

(* release_hold has read a hold that is gone by now, and the seats of that  *)
(* hold are HELD by a later hold.                                           *)
C32_Witness ==
    \E p \in Clients :
        /\ tx[p].pc = "release_update"
        /\ tx[p].hold \notin DOMAIN holds
        /\ \A sid \in Range(tx[p].req) :
               /\ seats[Key(tx[p].show, sid)].status = HELD
               /\ seats[Key(tx[p].show, sid)].hold_id # Val(tx[p].hold)

(* ----------------------- what a reaper tick removes -------------------- *)

(* C33: a step of a reaper tick removes only holds whose expires_at is at   *)
(* or before the clock value the tick read at its start; every hold that   *)
(* expires later, and every seat such a hold holds, is as it was.           *)
C33_TickRemovesOnlyExpired ==
    [][(tx[ReaperId].pc = "reap_update" /\ tx'[ReaperId] # tx[ReaperId])
       => \A h \in DOMAIN holds :
              IF holds[h].expires_at <= tx[ReaperId].now
              THEN h \in DOMAIN holds' => holds'[h] = holds[h]
              ELSE /\ h \in DOMAIN holds' /\ holds'[h] = holds[h]
                   /\ \A k \in DOMAIN seats :
                          seats[k].hold_id = Val(h) => seats'[k] = seats[k]]_vars

(* A tick has removed one hold and has left the hold that expires later,    *)
(* with its seat.                                                           *)
C33_Witness ==
    /\ tx[ReaperId].pc = "idle"
    /\ call[ReaperId].count = 1
    /\ nextHold = FirstHoldId + 2
    /\ \E h \in DOMAIN holds :
           /\ DOMAIN holds = {h}
           /\ holds[h].expires_at > clock
           /\ \E k \in DOMAIN seats : seats[k].status = HELD /\ seats[k].hold_id = Val(h)

(* ------------------- book_hold against release_hold -------------------- *)

(* The call of p is release_hold and reports success in this step. *)
ReleaseSucceeds(p) ==
    /\ tx[p].pc = "release_update"
    /\ call'[p].op = "release"
    /\ call'[p].code = 200

(* C34 as claimed: of book_hold(H) and release_hold(H) at most one reports  *)
(* its outcome: release_hold(H) does not return success when a Booking with *)
(* booking_id H is committed, and a release_hold(H) that returns success    *)
(* leaves all seats of H AVAILABLE at its commit.                           *)
C34_BookedOrReleased ==
    [][\A p \in Clients :
         ReleaseSucceeds(p)
         => /\ BookingId(tx[p].hold) \notin DOMAIN bookings'
            /\ \A k \in Keys(tx[p].show, Range(tx[p].req)) :
                   seats'[k].status = AVAILABLE]_vars

(* ------------------- the clock at the commit of a booking -------------- *)

(* C35 as claimed: a Booking is made only from a hold that is unexpired     *)
(* when the booking commits: no Booking for a hold H commits at a clock     *)
(* value at or after the expires_at of H.                                   *)
C35_BookedBeforeExpiry ==
    [][\A p \in Clients :
         (tx[p].pc = "book_seats" /\ DOMAIN bookings' # DOMAIN bookings)
         => /\ tx[p].hold \in DOMAIN holds
            /\ clock < holds[tx[p].hold].expires_at]_vars

(* --------------------------- no orphaned held seat --------------------- *)

(* C36: every HELD seat names in its hold_id a Hold row that exists, is of  *)
(* the seat's show, lists the seat in its seat_ids and has the expires_at   *)
(* that the seat carries as hold_expires_at.                                *)
C36_HeldSeatHasItsHold ==
    \A k \in DOMAIN seats :
        seats[k].status = HELD
        => \E h \in DOMAIN holds :
               /\ seats[k].hold_id = Val(h)
               /\ holds[h].show_id = k[1]
               /\ k[2] \in Range(holds[h].seat_ids)
               /\ seats[k].hold_expires_at = Val(holds[h].expires_at)

(* A reset has returned and a seat is HELD, by a hold taken since or while  *)
(* the reset ran.                                                           *)
C36_Witness ==
    /\ \E p \in Clients : call[p].op = "reset" /\ call[p].code = 200
    /\ \E k \in DOMAIN seats : seats[k].status = HELD

(* ------------------------------ two shows ------------------------------ *)

TwoShowCalls == 3

(* The service with a second show that has the same seat ids as the first. *)
InitTwoShows ==
    /\ clock = 0
    /\ shows = ShowIds
    /\ seats = [k \in Keys(DemoShow, SeatIds) \cup Keys(OtherShow, SeatIds)
                  |-> Seat(AVAILABLE, Null, Null)]
    /\ holds = <<>>
    /\ bookings = <<>>
    /\ nextHold = FirstHoldId
    /\ tx = [p \in Clients |-> IdleTx]
    /\ call = [p \in Clients |-> NoCall]
    /\ opsLeft = TwoShowCalls
    /\ active_cleanup = TRUE
    /\ cleanup_thread = "running"

(* Clients hold, book and release in either show, with hold ids of either   *)
(* show, while time passes.                                                 *)
NextTwoShows ==
    \/ Tick
    \/ \E p \in Clients, show \in ShowIds, req \in Requests :
           HoldBegin(p, show, req, DefaultHoldSeconds)
    \/ \E p \in Clients, k \in DOMAIN seats : HoldLock(p, k)
    \/ \E p \in Clients : HoldCommit(p)
    \/ \E p \in Clients, show \in ShowIds, h \in DOMAIN holds : BookBegin(p, show, h)
    \/ \E p \in Clients : BookLockHold(p)
    \/ \E p \in Clients, k \in DOMAIN seats : BookLockSeat(p, k)
    \/ \E p \in Clients : BookCommit(p)
    \/ \E p \in Clients : BookExpiredCommit(p)
    \/ \E p \in Clients, k \in DOMAIN seats : CleanupLock(p, k)
    \/ \E p \in Clients, show \in ShowIds, h \in DOMAIN holds : ReleaseBegin(p, show, h)
    \/ \E p \in Clients : ReleaseCommit(p)
    \/ \E p \in Clients : DeadlockAbort(p)

SpecTwoShows == InitTwoShows /\ [][NextTwoShows]_vars

(* Nothing of the show B changes in this step. *)
ShowUntouched(B) ==
    /\ \A k \in DOMAIN seats : k[1] = B => seats'[k] = seats[k]
    /\ \A h \in DOMAIN holds :
           holds[h].show_id = B => h \in DOMAIN holds' /\ holds'[h] = holds[h]
    /\ \A h \in DOMAIN holds' : holds'[h].show_id = B => h \in DOMAIN holds
    /\ \A b \in DOMAIN bookings :
           bookings[b].show_id = B => b \in DOMAIN bookings' /\ bookings'[b] = bookings[b]
    /\ \A b \in DOMAIN bookings' : bookings'[b].show_id = B => b \in DOMAIN bookings

(* C37: no step of a hold_seats, book_hold or release_hold call with        *)
(* show_id A changes a seat, hold or booking of another show B, also when   *)
(* both shows have the same seat ids; and a book_hold or release_hold whose *)
(* hold_id is that of a hold of B returns hold-not-found.                   *)
C37_OtherShowUntouched ==
    [][\A p \in Clients :
         ((tx'[p] # tx[p] \/ call'[p] # call[p])
          /\ call'[p].op \in {"hold", "book", "release"})
         => /\ \A B \in ShowIds \ {call'[p].show} : ShowUntouched(B)
            /\ (/\ call'[p].code # 0
                /\ call'[p].op \in {"book", "release"}
                /\ call'[p].hold \in DOMAIN holds
                /\ holds[call'[p].hold].show_id # call'[p].show)
               => call'[p].error \in {"hold not found or expired", "hold not found"}]_vars

(* release_hold and book_hold were called for the other show with the id of *)
(* a hold of the demo show: both got hold-not-found, and the hold and its   *)
(* seats are as they were.                                                  *)
C37_Witness ==
    \E h \in DOMAIN holds :
        /\ holds[h].show_id = DemoShow
        /\ \A sid \in Range(holds[h].seat_ids) :
               /\ seats[Key(DemoShow, sid)] = Seat(HELD, Val(h), Val(holds[h].expires_at))
               /\ seats[Key(OtherShow, sid)] = Seat(AVAILABLE, Null, Null)
        /\ \E p, q \in Clients :
               /\ call[p].op = "release" /\ call[p].show = OtherShow /\ call[p].hold = h
               /\ call[p].error = "hold not found"
               /\ call[q].op = "book" /\ call[q].show = OtherShow /\ call[q].hold = h
               /\ call[q].error = "hold not found or expired"

(* ------------------- the count that a reaper tick returns -------------- *)

(* C38 as claimed: the number that cleanup_expired_holds returns is the     *)
(* number of Hold rows that the committed transaction of the tick has       *)
(* removed, whatever release_hold and book_hold do meanwhile, and 0 when    *)
(* the transaction of the tick fails.                                       *)
C38_CountIsHoldsRemoved ==
    [][(tx[ReaperId].pc = "reap_update" /\ tx'[ReaperId].pc = "idle")
       => call'[ReaperId].count = Cardinality(DOMAIN holds \ DOMAIN holds')]_vars

====
